---- MODULE Spec2Model ----
(***************************************************************************)
(* Model of the paged file store (src/src/paged_file_store2.rs): a header  *)
(* holding the committed size, a file of fixed-size pages, one mutable     *)
(* mapping of the tail page, a table of read-only page mappings and the    *)
(* blob handles given to readers.                                          *)
(*                                                                         *)
(* The file is (hdr, data): hdr is bytes [0,8) of the header, data is the  *)
(* file content after the HEADER_SIZE header bytes. A memory mapping is    *)
(* represented by the index of the page it covers; all mappings are shared *)
(* mappings of the same file, so a read through any mapping sees the file  *)
(* content at the time of the read.                                        *)
(***************************************************************************)
EXTENDS Integers, Sequences, FiniteSets, TLC

\* ---------------------------------------------------------------- bounds
MaxAppends == 3        \* append calls per behaviour (accepted or rejected)
MaxBlobs   == 1        \* blob handles held by readers at one time
MaxCrashes == 1        \* process crashes (crash specification only)
NumThreads == 2        \* threads appending through clones of the store

\* ------------------------------------------------------------- constants
ALIGN       == 8
HEADER_SIZE == 1024
LEN_PREFIX  == 4
\* the const generic PAGE_SIZE, instantiated at the smallest multiple of
\* ALIGN for which a page can hold more than one record
PAGE_SIZE   == 2 * ALIGN
\* payload lengths tried by append: empty, one byte, a page less two
\* prefixes, and the three lengths around the size limit
Lens == {0, 1, PAGE_SIZE - 8, PAGE_SIZE - 5, PAGE_SIZE - 4, PAGE_SIZE - 3}

VARIABLES
    hdr,        \* header bytes [0,8): the committed size, big-endian
    data,       \* file content after the header
    current,    \* page covered by the mutable mapping `current`
    pages,      \* page table: page index -> page covered by the mapping
    pc,         \* position of the thread inside append ("idle": mutex free)
    arg,        \* the append in flight: its data and the size at entry
    blobs,      \* blob handles held by readers
    log,        \* append calls returned so far: ok, offset, data, size at
                \* entry, number of crashes before the call
    reopened,   \* "no": the store was never reopened; else the append calls
                \* returned since the last reopen: "none", "one", "more"
    crashes     \* number of crashes

vars == <<hdr, data, current, pages, pc, arg, blobs, log, reopened, crashes>>

\* ------------------------------------------------------- byte encodings
Zeros(n) == [i \in 1..n |-> 0]

Pow256(k) == IF k = 0 THEN 1
             ELSE IF k = 1 THEN 256
             ELSE IF k = 2 THEN 65536
             ELSE 16777216

\* u64::to_be_bytes for values below 2^31 (the upper four bytes stay zero)
U64ToBe(v) == [i \in 1..8 |-> IF i < 5 THEN 0 ELSE (v \div Pow256(8 - i)) % 256]

\* u64::from_be_bytes, same range
U64FromBe(b) == b[5] * Pow256(3) + b[6] * Pow256(2) + b[7] * Pow256(1) + b[8]

U32ToBe(v) == [i \in 1..4 |-> (v \div Pow256(4 - i)) % 256]

\* u32::from_be_bytes; values of 2^31 and more are represented by 2^31 - 1,
\* all of them are lengths no page can hold
U32FromBe(b) ==
    IF b[1] >= 128 THEN 2147483647
    ELSE b[1] * Pow256(3) + b[2] * Pow256(2) + b[3] * Pow256(1) + b[4]

\* ------------------------------------------------------------ file level
FileLen(d) == HEADER_SIZE + Len(d)

\* mutant of pad_to: nothing is appended
pad_to_none(d, offset) == d

\* pad_to(file, offset): append zeros until the file is offset bytes long
pad_to(d, offset) ==
    IF FileLen(d) < offset THEN d \o Zeros(offset - FileLen(d)) ELSE d

\* File::set_len(size), used by Inner::new to shorten the file
set_len(d, size) ==
    IF FileLen(d) > size THEN SubSeq(d, 1, size - HEADER_SIZE)
    ELSE pad_to(d, size)

\* Header::size
Header_size(h) == U64FromBe(h)

\* Header::set_size
Header_set_size(value) == U64ToBe(value)

\* fn pages(size, page_size)
pagesOf(size, page_size) ==
    LET q == size \div page_size
        r == size % page_size
    IN  IF r = 0 THEN q ELSE q + 1

Max(a, b) == IF a > b THEN a ELSE b

page(offset) == offset \div PAGE_SIZE

offset_within_page(offset) == offset % PAGE_SIZE

offset_of_page(p) == p * PAGE_SIZE

current_page(h) == Header_size(h) \div PAGE_SIZE

\* mutant of current_offset_in_page: the offset is rounded down to ALIGN
current_offset_in_page_aligned(h) ==
    ((Header_size(h) % PAGE_SIZE) \div ALIGN) * ALIGN

current_offset_in_page(h) == Header_size(h) % PAGE_SIZE

\* map_page_mut(file, page): extends the file over the page, maps it
map_page_mut(d, p) ==
    LET page_start == p * PAGE_SIZE + HEADER_SIZE
        page_end   == page_start + PAGE_SIZE
    IN  [data |-> pad_to(d, page_end), mmap |-> p]

\* mutant of map_page: the page start is computed one page too far
map_page_next(p) == p + 1

\* map_page(file, page): a read-only mapping of the page; the file is not
\* extended, a page past the end of the file faults when it is read
map_page(p) == p

\* mutant of InnerNew: the page after the last one is mapped as `current`
InnerNewPastLast(h, d) ==
    LET n         == Max(pagesOf(Header_size(h), PAGE_SIZE), 1)
        size      == n * PAGE_SIZE + HEADER_SIZE
        file_size == FileLen(d)
        d1        == IF file_size > size THEN set_len(d, size)
                     ELSE IF file_size < size THEN pad_to(d, size)
                     ELSE d
        m         == map_page_mut(d1, n)
    IN  [data |-> m.data, current |-> m.mmap]

\* Inner::new over the file (h, d)
InnerNew(h, d) ==
    LET n         == Max(pagesOf(Header_size(h), PAGE_SIZE), 1)
        size      == n * PAGE_SIZE + HEADER_SIZE
        file_size == FileLen(d)
        d1        == IF file_size > size THEN set_len(d, size)
                     ELSE IF file_size < size THEN pad_to(d, size)
                     ELSE d
        m         == map_page_mut(d1, n - 1)
    IN  [data |-> m.data, current |-> m.mmap]

\* ------------------------------------------------------- mapped content
\* is byte i (0-based) of the mapping of page m inside the file
Mapped(d, m, i) == m * PAGE_SIZE + i < Len(d)

ByteAt(d, m, i) == d[m * PAGE_SIZE + i + 1]

Fault == [ok |-> FALSE, val |-> <<>>]

\* read_length_prefixed(mmap, offset): the 4-byte big-endian length at
\* offset, then that many bytes; panics past the slice, faults past the file
read_length_prefixed(d, m, offset) ==
    IF ~(offset + LEN_PREFIX <= PAGE_SIZE /\ Mapped(d, m, offset + LEN_PREFIX - 1))
    THEN Fault
    ELSE LET l == U32FromBe([i \in 1..LEN_PREFIX |-> ByteAt(d, m, offset + i - 1)])
         IN  IF l = 0 THEN [ok |-> TRUE, val |-> <<>>]
             ELSE IF ~(l <= PAGE_SIZE /\ offset + LEN_PREFIX + l <= PAGE_SIZE
                       /\ Mapped(d, m, offset + LEN_PREFIX + l - 1))
             THEN Fault
             ELSE [ok |-> TRUE,
                   val |-> [i \in 1..l |-> ByteAt(d, m, offset + LEN_PREFIX + i - 1)]]

\* write_length_prefixed(current, offset, bytes): the 4-byte big-endian
\* length at offset of the mapping of page m, then the bytes
write_length_prefixed(d, m, offset, bytes) ==
    LET rec   == U32ToBe(Len(bytes)) \o bytes
        first == m * PAGE_SIZE + offset
    IN  [i \in 1..Len(d) |->
            IF i > first /\ i <= first + Len(rec) THEN rec[i - first] ELSE d[i]]

\* BlobOwner::get_slice of a handle
get_slice(d, h) == read_length_prefixed(d, h.mmap, h.off)

\* ---------------------------------------------------------------- state
EmptyPages == [k \in {} |-> 0]

\* mutant of Insert: the entry is stored under the next page index
InsertNext(tbl, k, v) ==
    [x \in DOMAIN tbl \cup {k + 1} |-> IF x = k + 1 THEN v ELSE tbl[x]]

Insert(tbl, k, v) == [x \in DOMAIN tbl \cup {k} |-> IF x = k THEN v ELSE tbl[x]]

Payload(len, b) == [i \in 1..len |-> b]

\* the payload of the n-th append call is filled with a byte of its own, so
\* that the bytes of two blobs are never the same
Fill(n) == 170 + n

Entry(ok, off, d, pre) ==
    [ok |-> ok, off |-> off, data |-> d, pre |-> pre, era |-> crashes]

NoArg == [data |-> <<>>, pre |-> 0]

\* an append call returns: the calls returned since the last reopen
Returned(r) == IF r = "none" THEN "one" ELSE IF r = "one" THEN "more" ELSE r

\* the successful appends
Done == {i \in 1..Len(log) : log[i].ok}

Offsets == {log[i].off : i \in Done}

\* the data appended at a returned offset
DataAt(o) == log[CHOOSE i \in Done : log[i].off = o].data

\* append calls made so far: returned, cut short by a crash, in flight
Calls == Len(log) + crashes + (IF pc = "idle" THEN 0 ELSE 1)

\* the store after Inner::new on a fresh, empty file: Header::new pads the
\* file to HEADER_SIZE, the size read from it is 0
Init ==
    LET st == InnerNew(Zeros(8), <<>>)
    IN  /\ hdr = Zeros(8)
        /\ data = st.data
        /\ current = st.current
        /\ pages = EmptyPages
        /\ pc = "idle"
        /\ arg = NoArg
        /\ blobs = {}
        /\ log = <<>>
        /\ reopened = "no"
        /\ crashes = 0

\* --------------------------------------------------------------- append
\* mutant of stored_len: the length prefix is not counted
stored_len_no_prefix(d) == Len(d)

\* Inner::append, line 221: the length of the record, prefix included
stored_len(d) == Len(d) + 4

\* mutant of too_large: a record of exactly a page is accepted
too_large_inclusive(d) == ~(Len(d) + 4 <= PAGE_SIZE)

\* Inner::append, line 219: the size check (true: the call is rejected)
too_large(d) == ~(Len(d) < PAGE_SIZE - 4)

\* mutant of crosses: the end is computed without the length prefix
crosses_no_prefix(offset, len) ==
    LET end      == offset + len - 4
        cur_page == page(offset)
        end_page == page(end)
    IN  end_page # cur_page

\* mutant of crosses: the page of the last byte of the record is compared,
\* a record ending exactly at the end of the page does not seal it
crosses_last_byte(offset, len) ==
    LET end      == offset + len - 1
        cur_page == page(offset)
        end_page == page(end)
    IN  end_page # cur_page

\* Inner::append, lines 224-228: does the record cross a page boundary
crosses(offset, len) ==
    LET end      == offset + len
        cur_page == page(offset)
        end_page == page(end)
    IN  end_page # cur_page

\* mutant of AppendBegin: the size check comes after the page was sealed,
\* a rejected call has advanced the size to the next page
AppendBeginLateCheck(d) ==
    /\ pc = "idle"
    /\ Calls < MaxAppends
    /\ IF too_large(d)
       THEN /\ log' = Append(log, Entry(FALSE, 0, d, Header_size(hdr)))
            /\ hdr' = Header_set_size(offset_of_page(current_page(hdr) + 1))
            /\ reopened' = Returned(reopened)
            /\ UNCHANGED <<pc, arg>>
       ELSE LET len    == stored_len(d)
                offset == Header_size(hdr)
            IN  /\ pc' = IF crosses(offset, len) THEN "close_map" ELSE "write"
                /\ arg' = [data |-> d, pre |-> offset]
                /\ UNCHANGED <<log, hdr, reopened>>
    /\ UNCHANGED <<data, current, pages, blobs, crashes>>

\* Inner::append, lines 219-228: the size check and the boundary test
AppendBegin(d) ==
    /\ pc = "idle"
    /\ Calls < MaxAppends
    /\ IF too_large(d)
       THEN /\ log' = Append(log, Entry(FALSE, 0, d, Header_size(hdr)))
            /\ reopened' = Returned(reopened)
            /\ UNCHANGED <<pc, arg>>
       ELSE LET len    == stored_len(d)
                offset == Header_size(hdr)
            IN  /\ pc' = IF crosses(offset, len) THEN "close_map" ELSE "write"
                /\ arg' = [data |-> d, pre |-> offset]
                /\ UNCHANGED <<log, reopened>>
    /\ UNCHANGED <<hdr, data, current, pages, blobs, crashes>>

\* mutant of ClosePageMap: the sealed page is not inserted in the table
ClosePageMapNoInsert ==
    /\ pc = "close_map"
    /\ LET cp   == current_page(hdr)
           temp == map_page_mut(data, cp + 1)
       IN  /\ data' = temp.data
           /\ current' = temp.mmap
           /\ pages' = pages
    /\ pc' = "close_size"
    /\ UNCHANGED <<hdr, arg, blobs, log, reopened, crashes>>

\* mutant of ClosePageMap: the sealed page is cleared
ClosePageMapZeroed ==
    /\ pc = "close_map"
    /\ LET cp   == current_page(hdr)
           temp == map_page_mut(data, cp + 1)
       IN  /\ data' = [b \in 1..Len(temp.data) |->
                          IF page(b - 1) = cp THEN 0 ELSE temp.data[b]]
           /\ current' = temp.mmap
           /\ pages' = Insert(pages, cp, current)
    /\ pc' = "close_size"
    /\ UNCHANGED <<hdr, arg, blobs, log, reopened, crashes>>

\* mutant of ClosePageMap: the new mapping is not swapped into `current`
ClosePageMapNoSwap ==
    /\ pc = "close_map"
    /\ LET cp   == current_page(hdr)
           temp == map_page_mut(data, cp + 1)
       IN  /\ data' = temp.data
           /\ current' = current
           /\ pages' = Insert(pages, cp, current)
    /\ pc' = "close_size"
    /\ UNCHANGED <<hdr, arg, blobs, log, reopened, crashes>>

\* Inner::close_page, lines 191-196: map the next page mutably (extending
\* the file), swap it into `current`, insert the old mapping in the table
ClosePageMap ==
    /\ pc = "close_map"
    /\ LET cp   == current_page(hdr)
           temp == map_page_mut(data, cp + 1)
       IN  /\ data' = temp.data
           /\ current' = temp.mmap
           /\ pages' = Insert(pages, cp, current)
    /\ pc' = "close_size"
    /\ UNCHANGED <<hdr, arg, blobs, log, reopened, crashes>>

\* mutant of ClosePageSize: the size is set to the start of the sealed page
ClosePageSizeReset ==
    /\ pc = "close_size"
    /\ hdr' = Header_set_size(offset_of_page(current_page(hdr)))
    /\ pc' = "write"
    /\ UNCHANGED <<data, current, pages, arg, blobs, log, reopened, crashes>>

\* Inner::close_page, lines 197-198: advance the size to the next page
ClosePageSize ==
    /\ pc = "close_size"
    /\ hdr' = Header_set_size(offset_of_page(current_page(hdr) + 1))
    /\ pc' = "write"
    /\ UNCHANGED <<data, current, pages, arg, blobs, log, reopened, crashes>>

\* mutant of Write: the record is written at the start of `current`
WriteAtStart ==
    /\ pc = "write"
    /\ data' = write_length_prefixed(data, current, 0, arg.data)
    /\ pc' = "commit"
    /\ UNCHANGED <<hdr, current, pages, arg, blobs, log, reopened, crashes>>

\* Inner::append, lines 231-233: write the record into `current`
Write ==
    /\ pc = "write"
    /\ data' = write_length_prefixed(data, current, current_offset_in_page(hdr),
                                     arg.data)
    /\ pc' = "commit"
    /\ UNCHANGED <<hdr, current, pages, arg, blobs, log, reopened, crashes>>

\* mutant of Commit: the size read before close_page is returned
CommitStaleOffset ==
    /\ pc = "commit"
    /\ LET len    == stored_len(arg.data)
           offset == Header_size(hdr)
       IN  /\ hdr' = Header_set_size(offset + len)
           /\ log' = Append(log, Entry(TRUE, arg.pre, arg.data, arg.pre))
    /\ reopened' = Returned(reopened)
    /\ pc' = "idle"
    /\ arg' = NoArg
    /\ UNCHANGED <<data, current, pages, blobs, crashes>>

\* mutant of Commit: the new size is rounded up to ALIGN
CommitAligned ==
    /\ pc = "commit"
    /\ LET len    == stored_len(arg.data)
           offset == Header_size(hdr)
       IN  /\ hdr' = Header_set_size(((offset + len + ALIGN - 1) \div ALIGN) * ALIGN)
           /\ log' = Append(log, Entry(TRUE, offset, arg.data, arg.pre))
    /\ reopened' = Returned(reopened)
    /\ pc' = "idle"
    /\ arg' = NoArg
    /\ UNCHANGED <<data, current, pages, blobs, crashes>>

\* Inner::append, lines 235-237: advance the size, return the old size
Commit ==
    /\ pc = "commit"
    /\ LET len    == stored_len(arg.data)
           offset == Header_size(hdr)
       IN  /\ hdr' = Header_set_size(offset + len)
           /\ log' = Append(log, Entry(TRUE, offset, arg.data, arg.pre))
    /\ reopened' = Returned(reopened)
    /\ pc' = "idle"
    /\ arg' = NoArg
    /\ UNCHANGED <<data, current, pages, blobs, crashes>>

\* ---------------------------------------------------------------- bytes
\* Page::bytes
Page_bytes(offset) == offset + 4 < PAGE_SIZE

\* Blob::custom(owner, offset): the mapping and the in-page offset; req and
\* valid record the offset asked for and whether an append had returned it
\* when the blob was made
Handle(m, o, req) ==
    [mmap |-> m, off |-> o, req |-> req, valid |-> req \in Offsets]

\* the offsets readers ask for: every offset returned so far, the start of
\* the page above the tail, the last 4 bytes of the tail
ProbeOffsets ==
    Offsets \cup {offset_of_page(current_page(hdr) + 1),
                  offset_of_page(current_page(hdr)) + PAGE_SIZE - 4}

\* mutant of bytes: the page after the tail page is mapped as well
bytes_above(tbl, h, offset) ==
    LET p           == page(offset)
        page_offset == offset_within_page(offset)
    IN  IF p \in DOMAIN tbl
        THEN [ok |-> Page_bytes(page_offset), mmap |-> tbl[p], pages |-> tbl]
        ELSE IF p <= current_page(h) + 1
        THEN [ok |-> Page_bytes(page_offset), mmap |-> map_page(p),
              pages |-> Insert(tbl, p, map_page(p))]
        ELSE [ok |-> FALSE, mmap |-> 0, pages |-> tbl]

\* Inner::bytes: whether a blob is returned, the mapping it is made on and
\* the page table after the call
bytes(tbl, h, offset) ==
    LET p           == page(offset)
        page_offset == offset_within_page(offset)
    IN  IF p \in DOMAIN tbl
        THEN [ok |-> Page_bytes(page_offset), mmap |-> tbl[p], pages |-> tbl]
        ELSE IF p <= current_page(h)
        THEN [ok |-> Page_bytes(page_offset), mmap |-> map_page(p),
              pages |-> Insert(tbl, p, map_page(p))]
        ELSE [ok |-> FALSE, mmap |-> 0, pages |-> tbl]

\* PagedFileStore::bytes under the mutex; the reader keeps the blob
Bytes(offset) ==
    /\ pc = "idle"
    /\ LET r == bytes(pages, hdr, offset)
       IN  /\ pages' = r.pages
           /\ IF r.ok
              THEN /\ Cardinality(blobs) < MaxBlobs
                   /\ blobs' = blobs \cup
                                {Handle(r.mmap, offset_within_page(offset), offset)}
              ELSE blobs' = blobs
    /\ UNCHANGED <<hdr, data, current, pc, arg, log, reopened, crashes>>

\* a reader dereferences a blob it holds, outside the mutex, at any point
\* of a running append: BlobOwner::get_slice reads the mapping and changes
\* nothing; what it returns is get_slice(data, h) of the state it is made in
Deref(h) ==
    /\ h \in blobs
    /\ UNCHANGED vars

\* a reader drops a blob
DropBlob(h) ==
    /\ h \in blobs
    /\ blobs' = blobs \ {h}
    /\ UNCHANGED <<hdr, data, current, pages, pc, arg, log, reopened, crashes>>

\* PagedFileStore::flush
Flush ==
    /\ pc = "idle"
    /\ UNCHANGED <<hdr, data, current, pages, pc, arg, blobs, log, reopened, crashes>>

\* ------------------------------------------------------- reopen / crash
\* the store is dropped and PagedFileStore::new opens the same file; blobs
\* held by readers keep their mappings
Reopen ==
    /\ pc = "idle"
    /\ LET st == InnerNew(hdr, data)
       IN  /\ data' = st.data
           /\ current' = st.current
    /\ pages' = EmptyPages
    /\ reopened' = "none"
    /\ UNCHANGED <<hdr, pc, arg, blobs, log, crashes>>

\* the process dies inside append; the file keeps every write made so far,
\* everything in memory is lost; a new process opens the file
Crash ==
    /\ pc # "idle"
    /\ crashes < MaxCrashes
    /\ LET st == InnerNew(hdr, data)
       IN  /\ data' = st.data
           /\ current' = st.current
    /\ pages' = EmptyPages
    /\ blobs' = {}
    /\ pc' = "idle"
    /\ arg' = NoArg
    /\ crashes' = crashes + 1
    /\ UNCHANGED <<hdr, log, reopened>>

\* ------------------------------------------------------- specifications
Next ==
    \/ \E len \in Lens : AppendBegin(Payload(len, Fill(Calls)))
    \/ ClosePageMap
    \/ ClosePageSize
    \/ Write
    \/ Commit
    \/ \E o \in ProbeOffsets : Bytes(o)
    \/ \E h \in blobs : Deref(h)
    \/ \E h \in blobs : DropBlob(h)
    \/ Flush
    \/ Reopen

Spec == Init /\ [][Next]_vars

NextCrash == Next \/ Crash

SpecCrash == Init /\ [][NextCrash]_vars

\* a reader asks for the committed end, an offset no append has returned
BytesAtEnd == Bytes(Header_size(hdr))

NextTail == Next \/ BytesAtEnd

SpecTail == Init /\ [][NextTail]_vars

\* threads holding clones of the PagedFileStore
Threads == 0..(NumThreads - 1)

\* the payload of a call of thread t is filled with a byte that names the
\* thread and the call
ThreadFill(t, n) == Fill(n) + 16 * t

\* thread t calls PagedFileStore::append: it takes the mutex when it is
\* free and holds it until Inner::append returns
ThreadAppend(t) ==
    \E len \in Lens : AppendBegin(Payload(len, ThreadFill(t, Calls)))

\* appends of several threads; whoever holds the mutex runs Inner::append
NextThreads ==
    \/ \E t \in Threads : ThreadAppend(t)
    \/ ClosePageMap
    \/ ClosePageSize
    \/ Write
    \/ Commit

SpecThreads == Init /\ [][NextThreads]_vars

\* ----------------------------------------------------------- sanity
TypeOK ==
    /\ Len(hdr) = 8
    /\ Len(data) % PAGE_SIZE = 0
    /\ pc \in {"idle", "close_map", "close_size", "write", "commit"}

\* the record written by append lies inside the page `current` covers
WriteFits ==
    pc = "write" =>
        /\ current_offset_in_page(hdr) + 4 + Len(arg.data) <= PAGE_SIZE
        /\ (current + 1) * PAGE_SIZE <= Len(data)

\* ------------------------------------------------------------- claims
Ok(v) == [ok |-> TRUE, val |-> v]

\* what a bytes(offset) call made now, dereferenced at once, returns
ReadBack(offset) ==
    LET r == bytes(pages, hdr, offset)
    IN  IF r.ok THEN read_length_prefixed(data, r.mmap, offset_within_page(offset))
        ELSE Fault

\* C1: whenever the mutex is free, bytes(o) of every offset o returned by a
\* successful append succeeds and its payload is the data of that append,
\* whatever bytes calls and appends were made in between.
RoundTrip ==
    pc = "idle" => \A i \in Done : ReadBack(log[i].off) = Ok(log[i].data)

\* C1 witness: a bytes call has left the tail page in the page table, two
\* records with a payload lie in that page, and both read back through the
\* table entry.
RoundTripWitness ==
    /\ pc = "idle"
    /\ current_page(hdr) \in DOMAIN pages
    /\ \E i, j \in Done :
          /\ i < j
          /\ page(log[i].off) = current_page(hdr)
          /\ page(log[j].off) = current_page(hdr)
          /\ Len(log[i].data) > 0 /\ Len(log[j].data) > 0
          /\ ReadBack(log[i].off) = Ok(log[i].data)
          /\ ReadBack(log[j].off) = Ok(log[j].data)

\* the last append call returned was the first one made after a reopen and
\* was successful
FirstAfterReopen ==
    /\ reopened = "one"
    /\ Len(log) > 0
    /\ log[Len(log)].ok

\* the step is a reopen
ReopenStep == reopened' = "none" /\ pc = "idle" /\ pc' = "idle"

\* C2 (as stated): after a reopen every returned offset reads back its data
\* and the first append returns the committed size S whenever its record
\* fits in what is left of the tail page (S mod P + 4 + len <= P).
PersistReopenOriginal ==
    (pc = "idle" /\ reopened # "no") =>
        /\ \A i \in Done : ReadBack(log[i].off) = Ok(log[i].data)
        /\ LET e == log[Len(log)]
           IN  (FirstAfterReopen
                /\ offset_within_page(e.pre) + 4 + Len(e.data) <= PAGE_SIZE)
               => e.off = e.pre

\* C2 (amended): a reopen leaves the header, the file and the page covered
\* by `current` as they were, every returned offset reads back its data
\* afterwards, and the first append after it returns S when its record ends
\* before the end of the tail page and the start of the next page otherwise.
PersistReopen ==
    /\ [][ReopenStep =>
            /\ hdr' = hdr
            /\ data' = data
            /\ current' = current
            /\ current' = current_page(hdr)]_vars
    /\ []((pc = "idle" /\ reopened # "no") =>
            /\ \A i \in Done : ReadBack(log[i].off) = Ok(log[i].data)
            /\ LET e == log[Len(log)]
               IN  FirstAfterReopen =>
                      e.off =
                         IF offset_within_page(e.pre) + 4 + Len(e.data) < PAGE_SIZE
                         THEN e.pre
                         ELSE offset_of_page(page(e.pre) + 1))

\* C2 witness: two records in two pages were appended, the store was
\* reopened, and the first append after it went into the tail page at S.
PersistReopenWitness ==
    /\ pc = "idle"
    /\ FirstAfterReopen
    /\ Len(log) = 3
    /\ log[1].ok /\ log[2].ok
    /\ page(log[1].off) < page(log[2].off)
    /\ log[3].off = log[3].pre
    /\ offset_within_page(log[3].pre) > 0
    /\ ReadBack(log[1].off) = Ok(log[1].data)
    /\ ReadBack(log[3].off) = Ok(log[3].data)

\* C3: after a crash inside append and the reopen of the file, every blob
\* whose append had returned before the crash reads back its data, also
\* after further appends on the reopened store.
CrashSafe ==
    pc = "idle" =>
        \A i \in Done : log[i].era < crashes =>
            ReadBack(log[i].off) = Ok(log[i].data)

\* the blob was made by a bytes call on an offset an append had returned
Valid(h) == h.valid

\* C4: the payload under a held blob made by bytes(o), o returned by an
\* append, is the same before and after every step that changes the file:
\* appends into the page of the blob, the seal of that page, reopen.
HandleStable ==
    [][data' # data =>
          \A h \in blobs \cap blobs' :
              Valid(h) => get_slice(data', h) = get_slice(data, h)]_vars

\* C4 witness: a reader holds a blob with a payload; the append in flight
\* has sealed the page of the blob and written its record to the next page.
HandleStableWitness ==
    /\ pc = "commit"
    /\ page(arg.pre) < current
    /\ \E h \in blobs :
          /\ Valid(h)
          /\ h.mmap = page(arg.pre)
          /\ h.mmap \in DOMAIN pages
          /\ get_slice(data, h).ok
          /\ Len(get_slice(data, h).val) > 0
          /\ \E j \in Done : page(log[j].off) = h.mmap /\ log[j].off > h.req

\* C5: at every point of a running append, and between appends, the
\* dereference of a held blob of a returned offset yields the data of the
\* append that returned the offset.
ConcurrentReads ==
    \A h \in blobs : Valid(h) => get_slice(data, h) = Ok(DataAt(h.req))

\* C5 witness: the writer has written a record into the page of a held blob
\* and has not committed it; the blob still yields its own data.
ConcurrentReadsWitness ==
    /\ pc = "commit"
    /\ Len(arg.data) > 0
    /\ \E h \in blobs :
          /\ Valid(h)
          /\ h.mmap = current
          /\ Len(DataAt(h.req)) > 0
          /\ get_slice(data, h) = Ok(DataAt(h.req))

\* C6: the offsets returned by successive successful appends are strictly
\* increasing.
OffsetsIncreasing ==
    \A i, j \in Done : i < j => log[i].off < log[j].off

\* C6 witness: a successful append, a rejected one, a reopen and a
\* successful append into the next page.
OffsetsIncreasingWitness ==
    /\ Len(log) = 3
    /\ log[1].ok /\ ~log[2].ok /\ log[3].ok
    /\ FirstAfterReopen
    /\ page(log[3].off) > page(log[1].off)
    /\ log[1].off < log[3].off

\* C7: every record lies inside one page, and a record that does not fit
\* in what is left of the tail page starts the next page.
NoSpan ==
    \A i \in Done :
        /\ offset_within_page(log[i].off) + 4 + Len(log[i].data) <= PAGE_SIZE
        /\ offset_within_page(log[i].pre) + 4 + Len(log[i].data) > PAGE_SIZE
              => log[i].off = offset_of_page(page(log[i].pre) + 1)

\* C7 witness: a record that did not fit behind the records of the tail
\* page was written at the start of the next page.
NoSpanWitness ==
    \E i \in Done :
        /\ offset_within_page(log[i].pre) > 0
        /\ offset_within_page(log[i].pre) + 4 + Len(log[i].data) > PAGE_SIZE
        /\ offset_within_page(log[i].off) = 0
        /\ pc = "idle" /\ ReadBack(log[i].off) = Ok(log[i].data)

\* C8 (as stated): append succeeds exactly when len(data) + 4 <= P.
SizeLimitOriginal ==
    \A i \in 1..Len(log) : log[i].ok <=> Len(log[i].data) + 4 <= PAGE_SIZE

\* C8 (amended): append succeeds exactly when len(data) + 4 < P; the largest
\* accepted payload, P - 5 bytes, has a page of its own.
SizeLimit ==
    \A i \in 1..Len(log) :
        /\ log[i].ok <=> Len(log[i].data) + 4 < PAGE_SIZE
        /\ (log[i].ok /\ Len(log[i].data) = PAGE_SIZE - 5) =>
              /\ offset_within_page(log[i].off) = 0
              /\ \A j \in Done : j # i => page(log[j].off) # page(log[i].off)

\* C8 witness: payloads of P - 5, P - 4 and P - 3 bytes were appended, the
\* first accepted, the other two rejected.
SizeLimitWitness ==
    \E i, j, k \in 1..Len(log) :
        /\ Len(log[i].data) = PAGE_SIZE - 5 /\ log[i].ok
        /\ Len(log[j].data) = PAGE_SIZE - 4 /\ ~log[j].ok
        /\ Len(log[k].data) = PAGE_SIZE - 3 /\ ~log[k].ok

\* the step is an append call that is rejected
RejectStep == Len(log') = Len(log) + 1 /\ ~log'[Len(log')].ok

\* the offset an append of d returns when the committed size is s
ExpectedOffset(s, d) ==
    IF crosses(s, stored_len(d)) THEN offset_of_page(page(s) + 1) ELSE s

\* C9: a rejected append leaves the header, the file, the tail mapping, the
\* page table and the blobs as they were, and the valid append that follows
\* starts from the same size and returns the offset it would have returned
\* without the rejected call.
RejectNoEffect ==
    /\ [][RejectStep =>
            /\ UNCHANGED <<hdr, data, current, pages, blobs>>
            /\ pc' = "idle"]_vars
    /\ [](\A i \in 1..Len(log) :
            (~log[i].ok /\ i < Len(log) /\ log[i + 1].ok) =>
                /\ log[i + 1].pre = log[i].pre
                /\ log[i + 1].off = ExpectedOffset(log[i].pre, log[i + 1].data))

\* C9 witness: an append, a rejected append on the store with a sealed page
\* in the table, a valid append after it.
RejectNoEffectWitness ==
    /\ Len(log) = 3
    /\ log[1].ok /\ ~log[2].ok /\ log[3].ok
    /\ log[2].pre > 0
    /\ log[3].pre = log[2].pre
    /\ DOMAIN pages # {}

\* the record of append i ends exactly at the end of the tail page
ExactFill(i) ==
    offset_within_page(log[i].pre) + 4 + Len(log[i].data) = PAGE_SIZE

\* C10 (as stated): an append whose record ends exactly on the page
\* boundary returns the old size and is stored in the tail page.
ExactFillOriginal ==
    \A i \in Done : ExactFill(i) => log[i].off = log[i].pre

\* C10 (amended): an append whose record would end exactly on the page
\* boundary seals the tail page, returns the start of the next page and is
\* stored there; the rest of the old page stays unwritten and the next
\* append starts behind the record in the new page.
ExactFillSeals ==
    \A i \in Done : ExactFill(i) =>
        /\ log[i].off = offset_of_page(page(log[i].pre) + 1)
        /\ \A b \in (log[i].pre + 1)..log[i].off : data[b] = 0
        /\ \A j \in Done : j > i => log[j].pre >= log[i].off + 4 + Len(log[i].data)
        /\ (i + 1 \in Done) => log[i + 1].pre = log[i].off + 4 + Len(log[i].data)

\* C10 witness: an exact fill behind a record in the tail page, followed by
\* another append.
ExactFillWitness ==
    \E i \in Done :
        /\ ExactFill(i)
        /\ offset_within_page(log[i].pre) > 0
        /\ i + 1 \in Done
        /\ pc = "idle" /\ ReadBack(log[i].off) = Ok(log[i].data)

\* the last call returned is a successful append, made on the store as it
\* was opened last
LastOk ==
    /\ pc = "idle"
    /\ Len(log) > 0
    /\ log[Len(log)].ok
    /\ reopened # "none"

\* the record of append i did not fit in the tail page: the boundary test of
\* append was true
Rolled(i) == crosses(log[i].pre, 4 + Len(log[i].data))

\* C11: an append whose record crosses the boundary of the tail page k
\* returns (k+1)P, not the old size; when it returns the size is
\* (k+1)P + len + 4, page k is in the page table, and the bytes between the
\* old size and the end of page k are left unwritten.
PageRollover ==
    /\ \A i \in Done : Rolled(i) =>
           /\ log[i].off = offset_of_page(page(log[i].pre) + 1)
           /\ log[i].off # log[i].pre
    /\ (LastOk /\ Rolled(Len(log))) =>
           LET e == log[Len(log)]
               k == page(e.pre)
           IN  /\ Header_size(hdr) = offset_of_page(k + 1) + Len(e.data) + 4
               /\ k \in DOMAIN pages
               /\ pages[k] = k
               /\ \A b \in (e.pre + 1)..e.off : data[b] = 0

\* C11 witness: the last append found a record in the tail page, did not
\* fit behind it, sealed the page and its record reads back from the next.
PageRolloverWitness ==
    /\ LastOk
    /\ Rolled(Len(log))
    /\ offset_within_page(log[Len(log)].pre) > 0
    /\ page(log[Len(log)].pre) \in DOMAIN pages
    /\ Len(log[Len(log)].data) > 0
    /\ ReadBack(log[Len(log)].off) = Ok(log[Len(log)].data)

\* C12: no step lowers the committed size; a successful append that returns
\* offset o for data d leaves the size at o + 4 + len(d); bytes, flush,
\* rejected appends and reopen leave the size as it was.
SizeMonotone ==
    [][/\ Header_size(hdr') >= Header_size(hdr)
       /\ (pc = "commit" /\ pc' = "idle") =>
              Header_size(hdr') =
                 log'[Len(log')].off + 4 + Len(log'[Len(log')].data)
       /\ (pc = "idle" /\ pc' = "idle") => hdr' = hdr]_vars

\* C12 witness: after an append, a rejected append, a bytes call and an
\* append into the next page the size is the end of the last record.
SizeMonotoneWitness ==
    /\ LastOk
    /\ Len(log) = 3
    /\ log[1].ok /\ ~log[2].ok
    /\ page(log[3].off) > page(log[1].off)
    /\ blobs # {}
    /\ Header_size(hdr) = log[3].off + 4 + Len(log[3].data)
    /\ Header_size(hdr) > log[1].off + 4 + Len(log[1].data)

\* offsets in the page above the tail page: its start, the committed
\* in-page offset, its last offset a blob can start at
AboveTail ==
    {offset_of_page(current_page(hdr) + 1),
     offset_of_page(current_page(hdr) + 1) + current_offset_in_page(hdr),
     offset_of_page(current_page(hdr) + 2) - 5}

\* C13: a bytes call on an offset in a page above the tail page fails and
\* leaves the page table as it is; no key of the page table and no mapping
\* of a held blob is a page above the tail page.
NoReadAboveTail ==
    /\ \A k \in DOMAIN pages : k <= current_page(hdr) /\ pages[k] = k
    /\ \A h \in blobs : h.mmap <= current_page(hdr)
    /\ pc = "idle" =>
          \A o \in AboveTail :
              LET r == bytes(pages, hdr, o)
              IN  ~r.ok /\ r.pages = pages

\* C13 witness: with a sealed page and the tail page in the table and a
\* blob held on the tail page, a bytes call on the start of the page above
\* the tail is refused.
NoReadAboveTailWitness ==
    /\ pc = "idle"
    /\ current_page(hdr) >= 1
    /\ DOMAIN pages = 0..current_page(hdr)
    /\ \E h \in blobs : h.mmap = current_page(hdr)
    /\ offset_of_page(current_page(hdr) + 1) \in ProbeOffsets
    /\ ~bytes(pages, hdr, offset_of_page(current_page(hdr) + 1)).ok

\* C14: every blob bytes returns lies below the committed end, also when a
\* reader asks for the committed end itself: a held blob has its length
\* prefix inside the committed bytes (in the tail page, in-page offset + 4
\* <= S mod P).
TailReadsCommitted ==
    \A h \in blobs : offset_of_page(h.mmap) + h.off + 4 <= Header_size(hdr)

\* C15: whenever the mutex is free, and whenever append writes or commits,
\* `current` covers the page of index floor(S / P), which lies inside the
\* file; the record is written at logical offset S.
TailMapping ==
    pc \in {"idle", "close_map", "write", "commit"} =>
        /\ current = current_page(hdr)
        /\ offset_of_page(current + 1) <= Len(data)
        /\ offset_of_page(current) + current_offset_in_page(hdr) = Header_size(hdr)

\* C15 witness: after a rollover and a reopen, the first append wrote its
\* record behind the record of the tail page, at the committed size.
TailMappingWitness ==
    /\ pc = "idle"
    /\ FirstAfterReopen
    /\ current >= 1
    /\ current = current_page(hdr)
    /\ log[Len(log)].off = log[Len(log)].pre
    /\ offset_within_page(log[Len(log)].off) > 0
    /\ page(log[Len(log)].off) = current
    /\ Len(log[Len(log)].data) > 0
    /\ ReadBack(log[Len(log)].off) = Ok(log[Len(log)].data)

\* C16 (as stated): whenever the mutex is free every key of the page table
\* is below the index of the tail page.
PagesSealedOriginal ==
    pc = "idle" => \A k \in DOMAIN pages : k < current_page(hdr)

\* byte i of the page k is sealed or committed
Settled(k, i) ==
    k < current_page(hdr) \/ offset_of_page(k) + i < Header_size(hdr)

\* C16 (amended): every key of the page table is at most the index of the
\* tail page; what is seen through an entry of a page below the tail never
\* changes, and through an entry of the tail page the bytes below the
\* committed size never change.
PagesSealed ==
    /\ [](\A k \in DOMAIN pages : k <= current_page(hdr))
    /\ [][data' # data =>
             \A k \in DOMAIN pages : \A i \in 0..(PAGE_SIZE - 1) :
                 (Settled(k, i) /\ Mapped(data, pages[k], i)) =>
                     /\ Mapped(data', pages[k], i)
                     /\ ByteAt(data', pages[k], i) = ByteAt(data, pages[k], i)]_vars

\* C16 witness: a sealed page and the tail page are in the page table and
\* append has written a record into the tail page.
PagesSealedWitness ==
    /\ pc = "commit"
    /\ current >= 1
    /\ current = current_page(hdr)
    /\ DOMAIN pages = 0..current
    /\ Len(arg.data) > 0
    /\ read_length_prefixed(data, pages[current], current_offset_in_page(hdr))
          = Ok(arg.data)

\* the store was opened and no append call has returned since
JustOpened == pc = "idle" /\ (reopened = "none" \/ Len(log) = 0)

\* files Inner::new may find under the header: the file as it is, the file
\* with a page of other bytes behind it, the file cut inside its last page
FilesAtOpen ==
    {data,
     data \o [i \in 1..PAGE_SIZE |-> 255],
     SubSeq(data, 1, Len(data) - ALIGN)}

\* C17: the committed size is at most the pages of the file and the file
\* has HEADER_SIZE + max(1, ceil(S / P)) * P bytes or more; on a store just
\* opened, Inner::new over the file, a longer or a shorter one leaves a
\* file of exactly that length, every byte the old file had inside that
\* length kept, the rest zero.
FileSize ==
    LET S == Header_size(hdr)
        n == Max(pagesOf(S, PAGE_SIZE), 1)
    IN  /\ S <= (Len(data) \div PAGE_SIZE) * PAGE_SIZE
        /\ FileLen(data) >= HEADER_SIZE + n * PAGE_SIZE
        /\ JustOpened =>
              \A f \in FilesAtOpen :
                  LET st == InnerNew(hdr, f)
                  IN  /\ FileLen(st.data) = HEADER_SIZE + n * PAGE_SIZE
                      /\ \A b \in 1..Len(st.data) :
                             st.data[b] = IF b <= Len(f) THEN f[b] ELSE 0

\* C17 witness: the store has two pages and a committed size in the second;
\* Inner::new cuts the longer file and pads the shorter file to two pages.
FileSizeWitness ==
    /\ pc = "idle"
    /\ Header_size(hdr) > PAGE_SIZE
    /\ Len(data) = 2 * PAGE_SIZE
    /\ reopened = "none"
    /\ \A f \in FilesAtOpen : Len(InnerNew(hdr, f).data) = 2 * PAGE_SIZE

\* C18: whenever the mutex is free the committed size is 0 or its in-page
\* offset is 4 or more; pages(S, P) - 1 = floor(S / P) (with max(1) for
\* S = 0), and Inner::new maps the page current_page() designates.
SizeOffBoundary ==
    pc = "idle" =>
        LET S == Header_size(hdr)
        IN  /\ S = 0 \/ offset_within_page(S) >= 4
            /\ Max(pagesOf(S, PAGE_SIZE), 1) - 1 = page(S)
            /\ InnerNew(hdr, data).current = current_page(hdr)

\* C18 witness: a record that would have ended exactly on the page boundary
\* was appended; the size lies inside the next page.
SizeOffBoundaryWitness ==
    /\ pc = "idle"
    /\ \E i \in Done : ExactFill(i) /\ offset_within_page(log[i].pre) > 0
    /\ log[Len(log)].ok
    /\ current_page(hdr) >= 1
    /\ offset_within_page(Header_size(hdr)) >= 4
    /\ InnerNew(hdr, data).current = current_page(hdr)

\* the thread that made the append call i (calls with a payload)
ThreadOf(i) == (log[i].data[1] - Fill(0)) \div 16

\* the logical bytes of the record of append i
Range(i) == log[i].off .. (log[i].off + 4 + Len(log[i].data) - 1)

\* C19: with several threads appending, any two successful appends have
\* different offsets and records that share no byte, and whenever the mutex
\* is free every record reads back the payload of the call that returned
\* its offset.
Serialized ==
    /\ \A i, j \in Done : i # j =>
           /\ log[i].off # log[j].off
           /\ Range(i) \cap Range(j) = {}
    /\ pc = "idle" => \A i \in Done : ReadBack(log[i].off) = Ok(log[i].data)

\* C19 witness: two threads appended in turn, the records of both lie in
\* one page, a record of the first thread rolled over, all read back.
SerializedWitness ==
    /\ pc = "idle"
    /\ Len(log) = 3
    /\ \A i \in 1..3 : log[i].ok /\ Len(log[i].data) > 0
    /\ ThreadOf(1) # ThreadOf(2)
    /\ ThreadOf(3) = ThreadOf(1)
    /\ page(log[1].off) = page(log[2].off)
    /\ page(log[3].off) > page(log[2].off)
    /\ \A i \in 1..3 : ReadBack(log[i].off) = Ok(log[i].data)

\* the size the append in flight started from, the committed size when the
\* mutex is free
StartSize == IF pc = "idle" THEN Header_size(hdr) ELSE arg.pre

\* C20: a step that changes the file keeps its length or extends it and
\* leaves every byte below the size the append started from as it was; the
\* write of append changes bytes of its own record only.
AppendOnly ==
    [][data' # data =>
          /\ Len(data') >= Len(data)
          /\ \A b \in 1..Len(data) :
                 /\ b <= StartSize => data'[b] = data[b]
                 /\ data'[b] # data[b] =>
                        /\ pc = "write"
                        /\ b > Header_size(hdr)
                        /\ b <= Header_size(hdr) + 4 + Len(arg.data)]_vars

\* C20 witness: append has sealed a page that holds a record and written
\* its own record to the next page; both records are in the file.
AppendOnlyWitness ==
    /\ pc = "commit"
    /\ page(arg.pre) < current
    /\ Len(arg.data) > 0
    /\ read_length_prefixed(data, current, current_offset_in_page(hdr))
          = Ok(arg.data)
    /\ \E i \in Done :
          /\ page(log[i].off) = page(arg.pre)
          /\ Len(log[i].data) > 0
          /\ read_length_prefixed(data, page(log[i].off),
                                  offset_within_page(log[i].off))
                = Ok(log[i].data)

====
